---- MODULE Spec2Model ----
(***************************************************************************)
(* A model of tree_updater.py: the filtered walk of a directory tree       *)
(* (scandir_paths), the nested tree builder (get_tree_dict), backup        *)
(* rotation (rotate_backups), the snapshot diff (compute_diff) and the     *)
(* pipeline that strings them together (main).                             *)
(*                                                                         *)
(* A relative path is the sequence of its components: <<"sub", "b.py">>    *)
(* is the posix string "sub/b.py", and its number of directory separators  *)
(* is its length minus one.  A line of a snapshot file is a sequence of    *)
(* strings too: a relative path, the blank line <<>>, or a root marker     *)
(* <<"##", root>> for the text "## root".                                  *)
(***************************************************************************)
EXTENDS Naturals, Integers, Sequences, FiniteSets, TLC

(***************************************************************************)
(* Bounds of the model.                                                    *)
(***************************************************************************)
\* Largest --depth a walk is given.
MaxDepth == 2
\* A walked tree is the ancestor closure of at most this many chosen paths.
MaxPicks == 2
\* Largest keep a rotation is given.
MaxKeep == 2
\* Most rotations of one backup directory.
MaxRotations == 4
\* Most seconds the clock advances.
MaxTicks == 3
\* Most uncompressed backups in a backup directory at the start.
MaxPrior == 2
\* Most runs of the pipeline.
MaxRuns == 2
\* Most seconds that pass between the runs of the pipeline.
MaxPipeTicks == 1
\* Most body lines of a snapshot file given to compute_diff.
MaxBody == 2

(***************************************************************************)
(* Configuration constants of the program.                                 *)
(***************************************************************************)
\* The suffixes of DEFAULT_INCLUDE_SUFFIXES that occur in the modelled names,
\* and one that does not.
DEFAULT_INCLUDE_SUFFIXES == {".py", ".md", ".txt"}

SPECIAL_NAMES == {"Dockerfile", "Makefile", "LICENSE", "README"}

DEFAULT_EXCLUDE ==
  {"__pycache__", ".git", ".hg", ".svn", "venv", ".venv", "node_modules",
   "dist", "build", ".idea", ".pytest_cache", ".mypy_cache"}

(***************************************************************************)
(* The file names of the model, in the order sorted() gives them (by code  *)
(* point: '.' < 'B' < 'R' < 'a' ...), and what pathlib reads off them.     *)
(***************************************************************************)
NameOrder ==
  <<".git", "B.PY", "README", "a.md", "a.py", "build", "c.py", "d.py",
    "deep", "dist", "h.py", "lnk", "more", "sub", "t.py", "x.py">>

\* Path.suffix: the last dot and what follows it, "" for a name with no dot
\* or with only a leading one.
PathSuffix(name) ==
  CASE name \in {"a.py", "c.py", "d.py", "h.py", "t.py", "x.py"} -> ".py"
    [] name = "B.PY" -> ".PY"
    [] name = "a.md" -> ".md"
    [] OTHER -> ""

\* str.lower on a suffix.
Lower(s) == IF s = ".PY" THEN ".py" ELSE IF s = ".MD" THEN ".md" ELSE s

(***************************************************************************)
(* The filesystem under one root.  Every path that may exist, with its     *)
(* kind: a file, a directory, or a symbolic link to a directory ("lnk",     *)
(* and "dist", whose name is in DEFAULT_EXCLUDE).                          *)
(***************************************************************************)
Univ ==
  { <<".git">>, <<".git", "h.py">>, <<"README">>, <<"a.md">>, <<"a.py">>,
    <<"dist">>, <<"lnk">>, <<"lnk", "t.py">>,
    <<"sub">>, <<"sub", "B.PY">>, <<"sub", "build">>, <<"sub", "build", "x.py">>,
    <<"sub", "deep">>, <<"sub", "deep", "c.py">>, <<"sub", "deep", "more">>,
    <<"sub", "deep", "more", "d.py">>, <<"t.py">> }

Last(p) == p[Len(p)]

Parent(p) == SubSeq(p, 1, Len(p) - 1)

KindOf(p) ==
  IF Last(p) \in {".git", "sub", "build", "deep", "more"} THEN "dir"
  ELSE IF Last(p) \in {"lnk", "dist"} THEN "symlink"
  ELSE "file"

\* p and all its ancestors below the root.
Ancestors(p) == { SubSeq(p, 1, i) : i \in 1..Len(p) }

Closure(S) == UNION { Ancestors(p) : p \in S }

\* The directories of a tree, the root (<<>>) included.
DirsOf(nodes) == { <<>> } \cup { p \in nodes : KindOf(p) = "dir" }

\* A root directory: whether it exists, the paths under it, the directories
\* whose listing is refused (PermissionError), and its .gitignore.
FsRecord(exists, nodes, denied, gi_exists, gi_lines) ==
  [exists |-> exists, nodes |-> nodes, denied |-> denied,
   gi_exists |-> gi_exists, gi_lines |-> gi_lines]

MissingRoot == FsRecord(FALSE, {}, {}, FALSE, <<>>)

(***************************************************************************)
(* Pattern matching.                                                       *)
(***************************************************************************)
\* fnmatch.fnmatch(rel, pat) for the patterns of the model; '*' also matches
\* '/'.  rel is a path below the root, or <<".">> for the root itself.
Fnmatch(rel, pat) ==
  CASE pat = "*.md" -> PathSuffix(Last(rel)) = ".md"
    [] pat = "sub/*" -> Len(rel) >= 2 /\ rel[1] = "sub"
    [] pat = "a.py" -> rel = <<"a.py">>
    [] OTHER -> FALSE

RECURSIVE AnyMatch(_, _)
AnyMatch(rel, patterns) ==
  IF patterns = <<>> THEN FALSE
  ELSE Fnmatch(rel, Head(patterns)) \/ AnyMatch(rel, Tail(patterns))

match_exclude(rel, patterns) == AnyMatch(rel, patterns)

\* A loaded matcher: None (some = FALSE) or the PathSpec of the lines read.
NoMatcher == [some |-> FALSE, pats |-> <<>>]

\* load_gitignore(root): None when root/.gitignore is absent or the pathspec
\* package is not installed.
load_gitignore(F, pathspec) ==
  IF ~F.gi_exists \/ ~pathspec THEN NoMatcher
  ELSE [some |-> TRUE, pats |-> F.gi_lines]

\* "git and git.match_file(rel)": an empty PathSpec is falsy and matches
\* nothing.  A gitwildmatch pattern without a slash matches the base name at
\* any level, which for "*.md" is what fnmatch does.
git_match(git, rel) == git.some /\ AnyMatch(rel, git.pats)

(***************************************************************************)
(* scandir_paths: the flat walk.                                           *)
(***************************************************************************)
\* The children of current that exist, in descending name order.
RECURSIVE SortedFromDescending(_, _, _)
SortedFromDescending(nodes, current, i) ==
  IF i > Len(NameOrder) THEN <<>>
  ELSE SortedFromDescending(nodes, current, i + 1)
       \o (IF Append(current, NameOrder[i]) \in nodes
             THEN << Append(current, NameOrder[i]) >> ELSE <<>>)

\* sorted(os.scandir(current), key=name): the children of current that
\* exist, in name order.
RECURSIVE SortedFrom(_, _, _)
SortedFrom(nodes, current, i) ==
  IF i > Len(NameOrder) THEN <<>>
  ELSE (IF Append(current, NameOrder[i]) \in nodes
          THEN << Append(current, NameOrder[i]) >> ELSE <<>>)
       \o SortedFrom(nodes, current, i + 1)

SortedChildren(nodes, current) == SortedFrom(nodes, current, 1)

\* The configuration of one walk.
WalkCfg(depth, include, exclude, git) ==
  [depth |-> depth, include |-> include, exclude |-> exclude, git |-> git]

\* Whether the file test of line 199 passes.
FileIncluded(name, include) ==
  name \in SPECIAL_NAMES \/ Lower(PathSuffix(name)) \in include

RECURSIVE _walk(_, _, _, _)
RECURSIVE WalkEntries(_, _, _, _)

\* The loop body of _walk without the test of line 194.
RECURSIVE WalkEntriesNoBuiltin(_, _, _, _)
WalkEntriesNoBuiltin(F, c, entries, d) ==
  IF entries = <<>> THEN <<>>
  ELSE LET p == Head(entries)
           here ==
             IF git_match(c.git, p) THEN <<>>
             ELSE IF match_exclude(p, c.exclude) THEN <<>>
             ELSE IF KindOf(p) = "dir" THEN <<p>> \o _walk(F, c, p, d + 1)
             ELSE IF FileIncluded(Last(p), c.include) THEN <<p>> ELSE <<>>
       IN here \o WalkEntriesNoBuiltin(F, c, Tail(entries), d)

\* The loop body of _walk over the sorted entries of one directory.
WalkEntries(F, c, entries, d) ==
  IF entries = <<>> THEN <<>>
  ELSE LET p == Head(entries)
           here ==
             IF git_match(c.git, p) THEN <<>>
             ELSE IF match_exclude(p, c.exclude) THEN <<>>
             ELSE IF KindOf(p) = "dir"   \* is_dir(follow_symlinks=False)
               THEN IF Last(p) \in DEFAULT_EXCLUDE THEN <<>>
                    ELSE <<p>> \o _walk(F, c, p, d + 1)
               ELSE IF FileIncluded(Last(p), c.include) THEN <<p>> ELSE <<>>
       IN here \o WalkEntries(F, c, Tail(entries), d)

\* _walk with the depth test off by one level.
walk_one_deeper(F, c, current, d) ==
  IF d > c.depth + 1 THEN <<>>
  ELSE IF current \in F.denied THEN <<>>
  ELSE WalkEntries(F, c, SortedChildren(F.nodes, current), d)

\* The entries up to the first directory whose listing is refused.
RECURSIVE UpToDenied(_, _)
UpToDenied(F, entries) ==
  IF entries = <<>> THEN <<>>
  ELSE IF Head(entries) \in F.denied THEN << Head(entries) >>
  ELSE << Head(entries) >> \o UpToDenied(F, Tail(entries))

\* _walk with the PermissionError of a directory caught by the handler of
\* its parent: the loop over the parent's entries ends there.
walk_caught_by_parent(F, c, current, d) ==
  IF d > c.depth THEN <<>>
  ELSE IF current \in F.denied THEN <<>>
  ELSE WalkEntries(F, c, UpToDenied(F, SortedChildren(F.nodes, current)), d)

\* _walk(current, d): nothing past the depth; a directory whose listing is
\* refused raises PermissionError, which is caught and logged.
_walk(F, c, current, d) ==
  IF d > c.depth THEN <<>>
  ELSE IF current \in F.denied THEN <<>>
  ELSE WalkEntries(F, c, SortedChildren(F.nodes, current), d)

\* scandir_paths(root, ...): os.scandir of a root that does not exist raises
\* FileNotFoundError, which nothing catches.
scandir_paths(F, c) ==
  IF c.depth >= 0 /\ ~F.exists THEN [raised |-> TRUE, rels |-> <<>>]
  ELSE [raised |-> FALSE, rels |-> _walk(F, c, <<>>, 0)]

(***************************************************************************)
(* get_tree_dict: the nested tree.                                         *)
(***************************************************************************)
\* root.relative_to(base).as_posix(): "." for the root itself.
RelOf(p) == IF p = <<>> THEN <<".">> ELSE p

\* The outcome of a call that may raise: the values returned (none, for
\* None), or raised.
Returned(vals) == [raised |-> FALSE, vals |-> vals]

Raised == [raised |-> TRUE, vals |-> <<>>]

\* build_node binds "exc" itself, in "except PermissionError as exc" (line
\* 143), so the name is local to it throughout, and the read of line 130
\* comes before any binding: it raises UnboundLocalError.
ExcIsUnboundLocal == TRUE

DirNode(rel, children) == [name |-> rel, type |-> "dir", children |-> children]

\* size and mtime are what stat returns; no operation reads them back.
FileNode(rel) ==
  [name |-> rel, type |-> "file", size |-> "st_size", mtime |-> "st_mtime"]

RECURSIVE build_node(_, _, _, _, _)
RECURSIVE BuildChildren(_, _, _, _, _)

\* The loop of lines 139-142: the nodes of the children, or the first raise.
BuildChildren(F, c, rootname, entries, cur_depth) ==
  IF entries = <<>> THEN Returned(<<>>)
  ELSE LET child_node == build_node(F, c, rootname, Head(entries), cur_depth + 1)
       IN IF child_node.raised THEN Raised
          ELSE LET rest == BuildChildren(F, c, rootname, Tail(entries), cur_depth)
               IN IF rest.raised THEN Raised
                  ELSE Returned(child_node.vals \o rest.vals)

\* build_node(root, cur_depth, git), p being the path of "root" below base.
\* Path.is_dir follows symbolic links.
build_node(F, c, rootname, p, cur_depth) ==
  LET rel == RelOf(p)
      name == IF p = <<>> THEN rootname ELSE Last(p)
      is_dir == IF p = <<>> THEN F.exists ELSE KindOf(p) \in {"dir", "symlink"}
  IN IF git_match(c.git, rel) THEN Returned(<<>>)
     ELSE IF ExcIsUnboundLocal THEN Raised
     ELSE IF match_exclude(rel, c.exclude) THEN Returned(<<>>)
     ELSE IF is_dir
       THEN IF name \in DEFAULT_EXCLUDE THEN Returned(<<>>)   \* rel is never ""
            ELSE IF cur_depth >= c.depth THEN Returned(<< DirNode(rel, <<>>) >>)
            ELSE IF p \in F.denied THEN Returned(<< DirNode(rel, <<>>) >>)
            ELSE LET kids == BuildChildren(F, c, rootname,
                                           SortedChildren(F.nodes, p), cur_depth)
                 IN IF kids.raised THEN Raised
                    ELSE Returned(<< DirNode(rel, kids.vals) >>)
       ELSE IF FileIncluded(name, c.include)
              THEN IF p = <<>> THEN Raised     \* stat of a root that is missing
                   ELSE Returned(<< FileNode(rel) >>)
              ELSE Returned(<<>>)

\* The loop of lines 158-163 over the roots from the i-th on.
RECURSIVE TreeOfRoots(_, _, _, _, _, _, _, _)
TreeOfRoots(roots, FS, depth, inc, exc, use_gitignore, pathspec, i) ==
  IF i > Len(roots) THEN Returned(<<>>)
  ELSE LET r == roots[i]
           git == IF use_gitignore THEN load_gitignore(FS[r], pathspec)
                  ELSE NoMatcher
           node == build_node(FS[r], WalkCfg(depth, inc, exc, git), r, <<>>, 0)
       IN IF node.raised THEN Raised
          ELSE LET rest == TreeOfRoots(roots, FS, depth, inc, exc,
                                       use_gitignore, pathspec, i + 1)
               IN IF rest.raised THEN Raised
                  ELSE Returned(node.vals \o rest.vals)

\* get_tree_dict(roots, depth, include, exclude, use_gitignore): the tree
\* under a synthetic root, or the raise.  "include or DEFAULT": an empty
\* include set is replaced by the default one.
get_tree_dict(roots, FS, depth, include, exclude, use_gitignore, pathspec) ==
  LET inc == { Lower(s) : s \in (IF include = {} THEN DEFAULT_INCLUDE_SUFFIXES
                                 ELSE include) }
      kids == TreeOfRoots(roots, FS, depth, inc, exclude, use_gitignore,
                          pathspec, 1)
  IN IF kids.raised THEN Raised
     ELSE Returned(<< [name |-> <<>>, type |-> "dir", children |-> kids.vals] >>)

\* The names of the nodes below a node, in the order of the tree.
RECURSIVE NodesBelow(_)
RECURSIVE NodesOfAll(_)
NodesOfAll(nodes) ==
  IF nodes = <<>> THEN <<>>
  ELSE << Head(nodes).name >> \o NodesBelow(Head(nodes)) \o NodesOfAll(Tail(nodes))

NodesBelow(node) ==
  IF node.type = "dir" THEN NodesOfAll(node.children) ELSE <<>>

(***************************************************************************)
(* rotate_backups.  A backup is named <<stem, ts>> for the file            *)
(* "<stem>_<ts>.txt", ts being the second of its timestamp.  The backup    *)
(* directory holds the uncompressed backups (txt) and the compressed ones  *)
(* (gz, named after the backup they compress), each with its content.      *)
(***************************************************************************)
BackupDir(exists, txt, gz) == [exists |-> exists, txt |-> txt, gz |-> gz]

EmptyFiles == [n \in {} |-> 0]

NoBackupDir == BackupDir(FALSE, EmptyFiles, EmptyFiles)

\* A file that may exist.
NoFile == [exists |-> FALSE, content |-> 0]

File(content) == [exists |-> TRUE, content |-> content]

\* gzip of a content.
Gzip(content) == << "gz", content >>

\* dir with file n written (created or overwritten).
Put(files, n, content) ==
  [m \in (DOMAIN files) \cup {n} |-> IF m = n THEN content ELSE files[m]]

Remove(files, n) == [m \in (DOMAIN files) \ {n} |-> files[m]]

\* bdir.glob(f"{stem}_*.txt"): the names that start with the stem and an
\* underscore, which the backups of a stem "<stem>_..." do too.
GlobStems(stem) ==
  CASE stem = "tree" -> {"tree", "tree_x"}
    [] OTHER -> {stem}

\* The order of sorted() on the file names: "notes_..." < "tree_<digits>..."
\* < "tree_x_...", and by timestamp within a stem.
StemRank(stem) ==
  CASE stem = "notes" -> 1
    [] stem = "tree" -> 2
    [] OTHER -> 3

NameLeq(a, b) ==
  \/ StemRank(a[1]) < StemRank(b[1])
  \/ StemRank(a[1]) = StemRank(b[1]) /\ a[2] <= b[2]

RECURSIVE SortedNames(_)
SortedNames(S) ==
  IF S = {} THEN <<>>
  ELSE LET m == CHOOSE x \in S : \A y \in S : NameLeq(x, y)
       IN << m >> \o SortedNames(S \ {m})

\* backups[:-keep]; with keep = 0 the slice [:-0] is [:0], the empty list.
AllButLast(backups, keep) ==
  IF keep = 0 THEN <<>>
  ELSE SubSeq(backups, 1, Len(backups) - keep)

\* The loop over the backups to retire with the unlink alone: a backup that
\* has no .gz sibling is removed without being compressed.
RECURSIVE RetireUnlinkOnly(_, _)
RetireUnlinkOnly(dir, olds) ==
  IF olds = <<>> THEN dir
  ELSE LET old == Head(olds)
           next == IF old \notin DOMAIN dir.gz
                     THEN BackupDir(TRUE, Remove(dir.txt, old), dir.gz)
                     ELSE dir
       IN RetireUnlinkOnly(next, Tail(olds))

\* The loop of lines 218-224 over the backups to retire: one that has no
\* .gz sibling is compressed and unlinked; one that has is left as it is
\* (the unlink is inside the if).
RECURSIVE Retire(_, _)
Retire(dir, olds) ==
  IF olds = <<>> THEN dir
  ELSE LET old == Head(olds)
           next == IF old \notin DOMAIN dir.gz
                     THEN BackupDir(TRUE, Remove(dir.txt, old),
                                    Put(dir.gz, old, Gzip(dir.txt[old])))
                     ELSE dir
       IN Retire(next, Tail(olds))

\* rotate_backups writing a backup whether the target exists or not.
rotate_backups_always_moves(dir, target, stem, ts, keep) ==
  LET moved == BackupDir(TRUE, Put(dir.txt, << stem, ts >>, target.content), dir.gz)
      backups == SortedNames({ n \in DOMAIN moved.txt : n[1] \in GlobStems(stem) })
  IN [dir |-> IF Len(backups) > keep
                THEN Retire(moved, AllButLast(backups, keep))
                ELSE moved,
      target |-> NoFile]

\* rotate_backups(target, keep) at second ts, the parent directory of the
\* target existing: the backup directory and the target afterwards.
rotate_backups(dir, target, stem, ts, keep) ==
  LET moved == IF target.exists
                 THEN BackupDir(TRUE, Put(dir.txt, << stem, ts >>, target.content),
                                dir.gz)
                 ELSE BackupDir(TRUE, dir.txt, dir.gz)
      backups == SortedNames({ n \in DOMAIN moved.txt : n[1] \in GlobStems(stem) })
  IN [dir |-> IF Len(backups) > keep
                THEN Retire(moved, AllButLast(backups, keep))
                ELSE moved,
      target |-> NoFile]

(***************************************************************************)
(* compute_diff.  A snapshot file is its lines, the header first; "by" is  *)
(* the run that wrote it, which is not part of the text.                   *)
(***************************************************************************)
Snapshot(by, lines) == [by |-> by, lines |-> lines]

\* text.splitlines()[1:]
BodyLines(lines) == IF lines = <<>> THEN <<>> ELSE Tail(lines)

Range(s) == { s[i] : i \in 1..Len(s) }

\* The order of str on the components of a line: "" first, then '#', then
\* the file names in their order.
WordRank(w) ==
  IF w = "##" THEN 0
  ELSE IF \E i \in 1..Len(NameOrder) : NameOrder[i] = w
    THEN CHOOSE i \in 1..Len(NameOrder) : NameOrder[i] = w
    ELSE Len(NameOrder) + 1

\* a <= b as strings.  No name of the model is the start of another, so the
\* order of the strings is the order of their components.
RECURSIVE LineLeq(_, _)
LineLeq(a, b) ==
  IF a = <<>> THEN TRUE
  ELSE IF b = <<>> THEN FALSE
  ELSE IF Head(a) = Head(b) THEN LineLeq(Tail(a), Tail(b))
  ELSE WordRank(Head(a)) < WordRank(Head(b))

RECURSIVE SortedLines(_)
SortedLines(S) ==
  IF S = {} THEN <<>>
  ELSE LET m == CHOOSE x \in S : \A y \in S : LineLeq(x, y)
       IN << m >> \o SortedLines(S \ {m})

\* The report shows at most this many lines of each kind.
DiffLimit == 100

Take(seq, n) == SubSeq(seq, 1, IF Len(seq) < n THEN Len(seq) ELSE n)

\* compute_diff reading no previous snapshot at all.
compute_diff_no_prev(prev, new) ==
  LET added == SortedLines(Range(BodyLines(new.content.lines)))
  IN [added |-> Len(added), removed |-> 0,
      plus |-> Take(added, DiffLimit), minus |-> <<>>]

\* compute_diff(prev, new, diff_path): the report written and the counts
\* returned.  A prev that does not exist reads as no lines.
compute_diff(prev, new) ==
  LET prev_lines == IF prev.exists THEN BodyLines(prev.content.lines) ELSE <<>>
      new_lines == BodyLines(new.content.lines)
      added == SortedLines(Range(new_lines) \ Range(prev_lines))
      removed == SortedLines(Range(prev_lines) \ Range(new_lines))
  IN [added |-> Len(added), removed |-> Len(removed),
      plus |-> Take(added, DiffLimit), minus |-> Take(removed, DiffLimit)]

(***************************************************************************)
(* main: one run of the pipeline.                                          *)
(***************************************************************************)
\* rotate_backups is called without keep: its default.
DefaultKeep == 10

\* "s if s.startswith('.') else '.' + s"
AddDot(s) ==
  CASE s = "py" -> ".py"
    [] s = "PY" -> ".PY"
    [] s = "md" -> ".md"
    [] OTHER -> s

\* The include set of lines 299-300 (and of line 315).
NormInclude(raw) == { Lower(AddDot(raw[i])) : i \in 1..Len(raw) }

\* The header line: the UTC time to the second.
HeaderLine(now) == << "#", now >>

BlankLine == <<>>

MarkerLine(root) == << "##", root >>

\* What _one_root(root) returns, or its raise.
one_root(F, args, pathspec) ==
  LET git == IF args.gitignore THEN load_gitignore(F, pathspec) ELSE NoMatcher
  IN scandir_paths(F, WalkCfg(args.depth, NormInclude(args.include),
                              args.exclude, git))

\* The loop of lines 312-316: the listing of all the roots, or the raise of
\* the first root that has one.
RECURSIVE CurrentListing(_, _, _, _)
CurrentListing(FS, args, pathspec, i) ==
  IF i > Len(args.roots) THEN [raised |-> FALSE, rels |-> <<>>]
  ELSE LET r == one_root(FS[args.roots[i]], args, pathspec)
       IN IF r.raised THEN [raised |-> TRUE, rels |-> <<>>]
          ELSE LET rest == CurrentListing(FS, args, pathspec, i + 1)
               IN [raised |-> rest.raised,
                   rels |-> IF rest.raised THEN <<>> ELSE r.rels \o rest.rels]

\* How many times one call of load_gitignore(root) reads root/.gitignore:
\* once, when the flag is set, the file is there and pathspec is installed.
Reads(F, use_gitignore, pathspec) ==
  IF use_gitignore /\ F.gi_exists /\ pathspec THEN 1 ELSE 0

\* The reads of the loop of lines 312-316, added to loads: each root is
\* loaded and then walked, up to the first walk that raises.
RECURSIVE CheckReads(_, _, _, _, _)
CheckReads(FS, args, pathspec, i, loads) ==
  IF i > Len(args.roots) THEN loads
  ELSE LET r == args.roots[i]
           more == [loads EXCEPT ![r] = @ + Reads(FS[r], args.gitignore, pathspec)]
       IN IF one_root(FS[r], args, pathspec).raised THEN more
          ELSE CheckReads(FS, args, pathspec, i + 1, more)

\* The reads of the loop of lines 158-163 of get_tree_dict, added to loads:
\* each root is loaded and then built, up to the first build that raises.
RECURSIVE TreeReads(_, _, _, _, _)
TreeReads(FS, args, pathspec, i, loads) ==
  IF i > Len(args.roots) THEN loads
  ELSE LET r == args.roots[i]
           git == IF args.gitignore THEN load_gitignore(FS[r], pathspec)
                  ELSE NoMatcher
           more == [loads EXCEPT ![r] = @ + Reads(FS[r], args.gitignore, pathspec)]
           node == build_node(FS[r], WalkCfg(args.depth, NormInclude(args.include),
                                             args.exclude, git), r, <<>>, 0)
       IN IF node.raised THEN more
          ELSE TreeReads(FS, args, pathspec, i + 1, more)

\* The body of the existing snapshot and the listing compared as lists.
IsUnchangedAsLists(out, current) == BodyLines(out.content.lines) = current

\* Line 317: the body of the existing snapshot and the listing, as sets.
IsUnchanged(out, current) == Range(BodyLines(out.content.lines)) = Range(current)

\* The results taken in the order the workers finished in.
ResultOrderAsFinished(n, finished) == finished

\* The order in which main takes the results of the workers: pool.map gives
\* them in the order of the roots, whatever the order they finished in.
ResultOrder(n, finished) == [i \in 1..n |-> i]

\* The lines of lines 340-343 for the results from the i-th on, up to the
\* first result that re-raises its worker's exception.
RECURSIVE ResultLines(_, _, _, _)
ResultLines(roots, workers, order, i) ==
  IF i > Len(roots) THEN [raised |-> FALSE, lines |-> <<>>]
  ELSE IF workers[order[i]].st = "raised" THEN [raised |-> TRUE, lines |-> <<>>]
  ELSE LET rest == ResultLines(roots, workers, order, i + 1)
       IN [raised |-> rest.raised,
           lines |-> << MarkerLine(roots[i]) >> \o workers[order[i]].rels
                     \o << BlankLine >> \o rest.lines]

\* The steps of main with the rotation after the write.
NextPhaseWriteFirst(pc) ==
  CASE pc = "check" -> "open"
    [] pc = "open" -> "scan"
    [] pc = "scan" -> "rotate"
    [] pc = "rotate" -> "json"
    [] pc = "json" -> "diff"
    [] OTHER -> "done"

\* The steps of main in the order it takes them.
NextPhase(pc) ==
  CASE pc = "check" -> "rotate"
    [] pc = "rotate" -> "open"
    [] pc = "open" -> "scan"
    [] pc = "scan" -> "json"
    [] pc = "json" -> "diff"
    [] OTHER -> "done"

(***************************************************************************)
(* State.                                                                  *)
(***************************************************************************)
VARIABLES
  w_fs,     \* the walks: the root directory walked
  w_cfg,    \* the walks: depth, include set, exclude list, gitignore flag
  w_flat,   \* the walks: what scandir_paths yielded, once called
  w_tree,   \* the walks: what get_tree_dict returned, once called
  r_dir,    \* the rotations: the backup directory
  r_target, \* the rotations: the target file
  r_keep,   \* the rotations: the keep they are given
  r_clock,  \* the rotations: the current second, what datetime.now() reads
  r_n,      \* the rotations: how many calls were made
  r_fresh,  \* the rotations: the directory started empty and every call
            \* so far found the target
  r_writes, \* the rotations: how many times the target was written
  r_pruned, \* the rotations: how many calls in a row found no target
  d_prev,   \* the diffs: the file at the path prev
  d_new,    \* the diffs: the file at the path new
  d_res,    \* the diffs: what compute_diff returned and wrote, once called
  p_cfg,    \* main: roots, depth, include, exclude, gitignore of its runs
  p_flags,  \* main: skip_unchanged, no_backup, no_diff, json of the run
  p_fs,     \* main: the directory of each root
  p_outdir, \* main: whether the directory of the output file exists
  p_out,    \* main: the output file (args.out)
  p_bdir,   \* main: the backup directory beside the output file
  p_json,   \* main: the JSON export
  p_diff,   \* main: the diff report
  p_clock,  \* main: the current second
  p_run,    \* main: how many runs were started
  p_pc,     \* main: the step the run is at
  p_prev,   \* main: whether prev_snapshot is a path (not None)
  p_workers,  \* main: the worker of each root: state, list built, entries to come
  p_finished, \* main: the workers in the order they finished
  p_exit,   \* main: how the last run ended
  p_fail,   \* main: the step an exception escaped from
  p_warned, \* main: the roots logged as not found
  p_start,  \* the output file as the run found it
  p_rotated,  \* how many times the run called rotate_backups
  p_opened, \* whether the run opened the output file for writing
  p_stable, \* the last run wrote its snapshot and returned, and the
            \* directories are as that run found them
  p_again,  \* p_stable as the run found it
  p_last_exit, \* how the run before this one ended
  p_loads   \* how many times the run read the .gitignore of each root

walk_vars == <<w_fs, w_cfg, w_flat, w_tree>>

rot_vars == <<r_dir, r_target, r_keep, r_clock, r_n, r_fresh, r_writes, r_pruned>>

diff_vars == <<d_prev, d_new, d_res>>

pipe_vars ==
  <<p_cfg, p_flags, p_fs, p_outdir, p_out, p_bdir, p_json, p_diff, p_clock,
    p_run, p_pc, p_prev, p_workers, p_finished, p_exit, p_fail, p_warned,
    p_start, p_rotated, p_opened, p_stable, p_again, p_last_exit, p_loads>>

vars == <<walk_vars, rot_vars, diff_vars, pipe_vars>>

\* The parts of the state a specification does not use stay as they are here.
WalkIdle ==
  /\ w_fs = MissingRoot
  /\ w_cfg = [depth |-> 0, include |-> {}, exclude |-> <<>>, use_gitignore |-> FALSE]
  /\ w_flat = [done |-> FALSE, raised |-> FALSE, vals |-> <<>>]
  /\ w_tree = [done |-> FALSE, raised |-> FALSE, vals |-> <<>>]

RotIdle ==
  /\ r_dir = NoBackupDir
  /\ r_target = NoFile
  /\ r_keep = 0
  /\ r_clock = 0
  /\ r_n = 0
  /\ r_fresh = TRUE
  /\ r_writes = 0
  /\ r_pruned = 0

NoSnapshot == [exists |-> FALSE, content |-> Snapshot(0, <<>>)]

NoFlags ==
  [skip_unchanged |-> FALSE, no_backup |-> FALSE, no_diff |-> FALSE, json |-> FALSE]

PipeIdle ==
  /\ p_cfg = [roots |-> <<>>, depth |-> 0, include |-> <<>>, exclude |-> <<>>,
              gitignore |-> FALSE, pathspec |-> FALSE]
  /\ p_flags = NoFlags
  /\ p_fs = [r \in {} |-> MissingRoot]
  /\ p_outdir = FALSE
  /\ p_out = NoSnapshot
  /\ p_bdir = NoBackupDir
  /\ p_json = NoFile
  /\ p_diff = NoFile
  /\ p_clock = 0
  /\ p_run = 0
  /\ p_pc = "idle"
  /\ p_prev = FALSE
  /\ p_workers = <<>>
  /\ p_finished = <<>>
  /\ p_exit = "none"
  /\ p_fail = "none"
  /\ p_warned = {}
  /\ p_start = NoSnapshot
  /\ p_rotated = 0
  /\ p_opened = FALSE
  /\ p_stable = FALSE
  /\ p_again = FALSE
  /\ p_last_exit = "none"
  /\ p_loads = [r \in {} |-> 0]

DiffNotCalled ==
  [done |-> FALSE, added |-> 0, removed |-> 0, plus |-> <<>>, minus |-> <<>>]

DiffIdle ==
  /\ d_prev = NoSnapshot
  /\ d_new = NoSnapshot
  /\ d_res = DiffNotCalled

(***************************************************************************)
(* The walks, each on inputs drawn at the start.                           *)
(***************************************************************************)
WalkRoot == "proj"

NotCalled == [done |-> FALSE, raised |-> FALSE, vals |-> <<>>]

Called(r) == [done |-> TRUE, raised |-> r.raised, vals |-> r.vals]

\* The trees walked: the ancestor closure of up to MaxPicks paths.
WalkTrees == { Closure(S) : S \in { T \in SUBSET Univ : Cardinality(T) <= MaxPicks } }

IncludeSets == { {".py"}, {".py", ".md"}, {} }

ExcludeLists == { <<>>, << "*.md" >>, << "sub/*" >> }

InitWalk ==
  /\ \E nodes \in WalkTrees, gi \in BOOLEAN :
       \E denied \in { {} } \cup { {p} : p \in DirsOf(nodes) } :
         w_fs = FsRecord(TRUE, nodes, denied, gi, IF gi THEN << "*.md" >> ELSE <<>>)
  /\ w_cfg \in [depth : 0..MaxDepth, include : IncludeSets,
                exclude : ExcludeLists, use_gitignore : BOOLEAN]
  /\ w_flat = NotCalled
  /\ w_tree = NotCalled
  /\ RotIdle
  /\ PipeIdle
  /\ DiffIdle

\* The matcher main hands to scandir_paths (lines 313 and 333).
WalkGit == IF w_cfg.use_gitignore THEN load_gitignore(w_fs, TRUE) ELSE NoMatcher

\* list(scandir_paths(root, depth, include, exclude, git))
CallScandirPaths ==
  /\ ~w_flat.done
  /\ LET r == scandir_paths(w_fs, WalkCfg(w_cfg.depth, w_cfg.include,
                                          w_cfg.exclude, WalkGit))
     IN w_flat' = [done |-> TRUE, raised |-> r.raised, vals |-> r.rels]
  /\ UNCHANGED <<w_fs, w_cfg, w_tree, rot_vars, pipe_vars, diff_vars>>

\* get_tree_dict([root], depth, include, exclude, use_gitignore)
CallGetTreeDict ==
  /\ ~w_tree.done
  /\ w_tree' = Called(get_tree_dict(<< WalkRoot >>, [r \in {WalkRoot} |-> w_fs],
                                    w_cfg.depth, w_cfg.include, w_cfg.exclude,
                                    w_cfg.use_gitignore, TRUE))
  /\ UNCHANGED <<w_fs, w_cfg, w_flat, rot_vars, pipe_vars, diff_vars>>

NextWalk == CallScandirPaths \/ CallGetTreeDict

SpecWalk == InitWalk /\ [][NextWalk]_vars

(***************************************************************************)
(* Properties of the walks.                                                *)
(***************************************************************************)
\* What the filters of the walk let through, stated on one path alone.
PassesFilters(p) ==
  /\ ~git_match(WalkGit, p)
  /\ ~match_exclude(p, w_cfg.exclude)
  /\ IF KindOf(p) = "dir" THEN Last(p) \notin DEFAULT_EXCLUDE
     ELSE FileIncluded(Last(p), w_cfg.include)

\* C9: no path yielded by scandir_paths has more than depth directory
\* separators below its root, and with depth 0 the paths yielded are exactly
\* the immediate children of the (readable) root that pass the filters.
C9_DepthBound ==
  w_flat.done =>
    /\ ~w_flat.raised
    /\ \A p \in Range(w_flat.vals) : Len(p) - 1 <= w_cfg.depth
    /\ (w_cfg.depth = 0 /\ <<>> \notin w_fs.denied) =>
         Range(w_flat.vals) = { p \in w_fs.nodes : Len(p) = 1 /\ PassesFilters(p) }

\* A walk of depth 1 that yielded a directory at its depth limit whose
\* children exist, pass the filters, and were left out.
C9_Witness ==
  /\ w_flat.done
  /\ w_cfg.depth = 1
  /\ << "sub", "deep" >> \in Range(w_flat.vals)
  /\ << "sub", "deep", "c.py" >> \in w_fs.nodes
  /\ PassesFilters(<< "sub", "deep", "c.py" >>)
  /\ << "sub", "deep", "c.py" >> \notin Range(w_flat.vals)

\* C10: the tree get_tree_dict builds holds, under the root, exactly the
\* relative paths scandir_paths yields for it.
C10_TreeMatchesWalk ==
  (w_flat.done /\ w_tree.done /\ ~w_flat.raised) =>
    /\ ~w_tree.raised
    /\ Range(NodesOfAll(w_tree.vals[1].children[1].children)) = Range(w_flat.vals)

\* C11: no path yielded by scandir_paths has a component whose name is in
\* DEFAULT_EXCLUDE: no directory of such a name is listed, and nothing
\* beneath one, whatever the include set, the exclude list and the depth.
C11_BuiltinExcluded ==
  w_flat.done =>
    \A p \in Range(w_flat.vals) : \A i \in 1..Len(p) : p[i] \notin DEFAULT_EXCLUDE

\* A walk deep enough to reach sub/build/x.py, a file the include set and
\* the other filters let through, which listed sub and left out the file.
C11_Witness ==
  /\ w_flat.done
  /\ w_cfg.depth = 2
  /\ << "sub", "build", "x.py" >> \in w_fs.nodes
  /\ w_fs.denied = {}
  /\ PassesFilters(<< "sub", "build", "x.py" >>)
  /\ PassesFilters(<< "sub" >>)
  /\ << "sub" >> \in Range(w_flat.vals)
  /\ << "sub", "build", "x.py" >> \notin Range(w_flat.vals)

\* p lies beneath a directory whose listing is refused.
BeneathDenied(p) ==
  \E q \in w_fs.denied : Len(p) > Len(q) /\ SubSeq(p, 1, Len(q)) = q

NotBeneathDenied(p) == ~BeneathDenied(p)

\* The walk of the same tree with every directory readable.
ReadableWalk ==
  _walk([w_fs EXCEPT !.denied = {}],
        WalkCfg(w_cfg.depth, w_cfg.include, w_cfg.exclude, WalkGit), <<>>, 0)

\* C14: a directory whose listing raises PermissionError costs the walk the
\* entries beneath that directory and nothing else: the walk ends normally
\* and yields, in order, what the walk of the readable tree yields outside
\* that directory.
C14_DeniedSubtreeOnly ==
  w_flat.done =>
    /\ ~w_flat.raised
    /\ w_flat.vals = SelectSeq(ReadableWalk, NotBeneathDenied)

\* A walk that found sub unreadable, with sub/B.PY beneath it and t.py
\* after it: it listed sub and t.py and left out sub/B.PY.
C14_Witness ==
  /\ w_flat.done
  /\ w_fs.denied = { << "sub" >> }
  /\ << "sub", "B.PY" >> \in Range(ReadableWalk)
  /\ << "sub", "B.PY" >> \notin Range(w_flat.vals)
  /\ << "sub" >> \in Range(w_flat.vals)
  /\ << "t.py" >> \in Range(w_flat.vals)

\* The place of a name in the order of sorted().
NameRank(name) == CHOOSE i \in 1..Len(NameOrder) : NameOrder[i] = name

\* p comes before q in the depth-first pre-order with the children of a
\* directory in ascending name order: a directory before what is beneath
\* it, and otherwise by the first component that differs.
RECURSIVE PreOrderBefore(_, _)
PreOrderBefore(p, q) ==
  IF p = <<>> THEN q # <<>>
  ELSE IF q = <<>> THEN FALSE
  ELSE IF Head(p) = Head(q) THEN PreOrderBefore(Tail(p), Tail(q))
  ELSE NameRank(Head(p)) < NameRank(Head(q))

\* q lies beneath the directory p.
Beneath(q, p) == Len(q) > Len(p) /\ SubSeq(q, 1, Len(p)) = p

\* C17: the sequence scandir_paths yields is in depth-first pre-order with
\* the children of every directory in ascending name order; a path that is
\* not a child of the root comes after the path of its directory, and the
\* paths beneath a directory follow it without a gap.
C17_PreOrder ==
  w_flat.done =>
    LET v == w_flat.vals
    IN /\ \A i, j \in 1..Len(v) : i < j => PreOrderBefore(v[i], v[j])
       /\ \A j \in 1..Len(v) :
            Len(v[j]) > 1 => \E i \in 1..(j - 1) : v[i] = Parent(v[j])
       /\ \A i, j \in 1..Len(v) :
            (i < j /\ Beneath(v[j], v[i])) =>
              \A k \in (i + 1)..j : Beneath(v[k], v[i])

\* The walk of a.py, sub and sub/B.PY yielded them in that order.
C17_Witness ==
  /\ w_flat.done
  /\ w_flat.vals = << << "a.py" >>, << "sub" >>, << "sub", "B.PY" >> >>

(***************************************************************************)
(* Rotations of the backups of one target, "tree.txt", the pipeline        *)
(* writing the target anew between them.                                   *)
(***************************************************************************)
TargetStem == "tree"

\* The second the rotations start at; earlier backups carry it or an
\* earlier one.
PriorClock == 2

PriorNames == { "notes", "tree", "tree_x" } \X (1..PriorClock)

InitRotate ==
  /\ WalkIdle
  /\ PipeIdle
  /\ DiffIdle
  /\ r_pruned = 0
  /\ r_keep \in 0..MaxKeep
  /\ \E T \in { X \in SUBSET PriorNames : Cardinality(X) <= MaxPrior },
        G \in { X \in SUBSET PriorNames : Cardinality(X) <= 1 },
        made \in BOOLEAN :
       r_dir = IF made THEN BackupDir(TRUE, [n \in T |-> 0], [n \in G |-> Gzip(0)])
               ELSE NoBackupDir
  /\ r_target \in { NoFile, File(1) }
  /\ r_writes = IF r_target.exists THEN 1 ELSE 0
  /\ r_clock = PriorClock
  /\ r_n = 0
  /\ r_fresh = (DOMAIN r_dir.txt = {} /\ DOMAIN r_dir.gz = {})

\* rotate_backups(target, keep)
CallRotateBackups ==
  /\ r_n < MaxRotations
  /\ LET r == rotate_backups(r_dir, r_target, TargetStem, r_clock, r_keep)
     IN /\ r_dir' = r.dir
        /\ r_target' = r.target
  /\ r_n' = r_n + 1
  /\ r_fresh' = (r_fresh /\ r_target.exists)
  /\ r_pruned' = IF r_target.exists THEN 0 ELSE r_pruned + 1
  /\ UNCHANGED <<r_keep, r_clock, r_writes, walk_vars, pipe_vars, diff_vars>>

\* The pipeline writes the target after a rotation (main, line 328).
RecreateTarget ==
  /\ ~r_target.exists
  /\ r_n < MaxRotations
  /\ r_writes' = r_writes + 1
  /\ r_target' = File(r_writes + 1)
  /\ r_pruned' = 0
  /\ UNCHANGED <<r_dir, r_keep, r_clock, r_n, r_fresh, walk_vars, pipe_vars, diff_vars>>

\* A second passes.
TickRotate ==
  /\ r_clock < PriorClock + MaxTicks
  /\ r_clock' = r_clock + 1
  /\ UNCHANGED <<r_dir, r_target, r_keep, r_n, r_fresh, r_writes, r_pruned, walk_vars, pipe_vars, diff_vars>>

NextRotate == CallRotateBackups \/ RecreateTarget \/ TickRotate

SpecRotate == InitRotate /\ [][NextRotate]_vars

\* The uncompressed backups of the target in the backup directory.
OwnBackups == { n \in DOMAIN r_dir.txt : n[1] = TargetStem }

\* C4: after a call of rotate_backups(target, keep), at most keep
\* uncompressed backups of the target remain, whatever the backup directory
\* held before.
C4_AtMostKeep == r_n >= 1 => Cardinality(OwnBackups) <= r_keep

\* C5: from an empty backup set, after N > keep rotations of an existing
\* target, exactly keep uncompressed backups remain.
C5_ExactlyKeep ==
  (r_fresh /\ r_n > r_keep) => Cardinality(DOMAIN r_dir.txt) = r_keep

\* C15: a call of rotate_backups that finds no target creates no backup
\* and changes none, and one that follows another such call leaves the
\* backup directory as it is.
C15_PruneIdempotent ==
  [][ (r_n' = r_n + 1 /\ ~r_target.exists) =>
        /\ DOMAIN r_dir'.txt \subseteq DOMAIN r_dir.txt
        /\ \A n \in DOMAIN r_dir'.txt : r_dir'.txt[n] = r_dir.txt[n]
        /\ r_pruned >= 1 => r_dir' = r_dir ]_vars

\* Two calls in a row with no target, the first of which compressed a
\* backup (the directory started with one compressed backup at most).
C15_Witness ==
  /\ r_n = 2
  /\ r_pruned = 2
  /\ Cardinality(DOMAIN r_dir.gz) >= 2

\* The uncompressed backups once the call has moved the target in, and
\* the content of each.
AfterMove ==
  DOMAIN r_dir.txt
    \cup (IF r_target.exists THEN { << TargetStem, r_clock >> } ELSE {})

MovedContent(n) ==
  IF r_target.exists /\ n = << TargetStem, r_clock >> THEN r_target.content
  ELSE r_dir.txt[n]

\* C19: a call of rotate_backups leaves the backups of another stem as
\* they are, uncompressed and compressed, and does not count them toward
\* keep: of the target's own backups, the newest keep (or all, if fewer)
\* stay uncompressed.
C19_OwnStemOnly ==
  [][ r_n' = r_n + 1 =>
        LET own == { n \in AfterMove : n[1] = TargetStem }
            own_after == { n \in DOMAIN r_dir'.txt : n[1] = TargetStem }
        IN /\ \A n \in DOMAIN r_dir.txt :
                n[1] # TargetStem =>
                  n \in DOMAIN r_dir'.txt /\ r_dir'.txt[n] = r_dir.txt[n]
           /\ { n \in DOMAIN r_dir'.gz : n[1] # TargetStem }
                = { n \in DOMAIN r_dir.gz : n[1] # TargetStem }
           /\ Cardinality(own_after)
                >= (IF Cardinality(own) < r_keep THEN Cardinality(own) ELSE r_keep)
    ]_vars

\* C20: in a call of rotate_backups, an uncompressed backup that is removed
\* has a .gz sibling afterwards, which holds its content; a backup removed
\* sorts before every backup of the listing that stays and has no .gz
\* sibling; and every .gz file stays, with its content.
C20_PruneKeepsContent ==
  [][ r_n' = r_n + 1 =>
        LET removed == AfterMove \ DOMAIN r_dir'.txt
        IN /\ \A n \in removed :
                n \in DOMAIN r_dir'.gz /\ r_dir'.gz[n] = Gzip(MovedContent(n))
           /\ \A n \in removed : \A m \in DOMAIN r_dir'.txt :
                (m[1] \in GlobStems(TargetStem) /\ m \notin DOMAIN r_dir'.gz)
                  => (NameLeq(n, m) /\ n # m)
           /\ \A n \in DOMAIN r_dir.gz :
                n \in DOMAIN r_dir'.gz /\ r_dir'.gz[n] = r_dir.gz[n]
    ]_vars

\* A backup the rotations made themselves (of a target written by the
\* pipeline) is now compressed only, with a newer one still uncompressed.
C20_Witness ==
  /\ r_n >= 1
  /\ \E n \in DOMAIN r_dir.gz :
       /\ n \notin DOMAIN r_dir.txt
       /\ r_dir.gz[n][2] >= 1
       /\ \E m \in DOMAIN r_dir.txt : m[1] = TargetStem /\ m[2] > n[2]

(***************************************************************************)
(* compute_diff on two snapshot files drawn at the start.                  *)
(***************************************************************************)
\* The lines a body is made of: a blank line, a root marker, a path.
DiffLineSet == { BlankLine, MarkerLine("proj"), << "a.py" >> }

RECURSIVE BodiesOf(_)
BodiesOf(n) ==
  IF n = 0 THEN { <<>> }
  ELSE BodiesOf(n - 1)
       \cup { Append(b, l) : b \in { x \in BodiesOf(n - 1) : Len(x) = n - 1 },
                              l \in DiffLineSet }

\* The snapshot files: the empty file, and a header with a body.
DiffFiles ==
  { File(Snapshot(0, <<>>)) }
    \cup { File(Snapshot(0, << HeaderLine(1) >> \o b)) : b \in BodiesOf(MaxBody) }

InitDiff ==
  /\ WalkIdle
  /\ RotIdle
  /\ PipeIdle
  /\ d_prev \in { NoSnapshot } \cup DiffFiles
  /\ d_new \in DiffFiles
  /\ d_res = DiffNotCalled

\* compute_diff(prev, new, diff_path)
CallComputeDiff ==
  /\ ~d_res.done
  /\ LET r == compute_diff(d_prev, d_new)
     IN d_res' = [done |-> TRUE, added |-> r.added, removed |-> r.removed,
                  plus |-> r.plus, minus |-> r.minus]
  /\ UNCHANGED <<d_prev, d_new, walk_vars, rot_vars, pipe_vars>>

NextDiff == CallComputeDiff

SpecDiff == InitDiff /\ [][NextDiff]_vars

\* C12: with a previous snapshot that is missing or empty, compute_diff
\* returns the number of body lines of the new snapshot as added, and 0 as
\* removed.
C12_DiffFromNothing ==
  (d_res.done /\ (~d_prev.exists \/ d_prev.content.lines = <<>>)) =>
    /\ d_res.added = Len(BodyLines(d_new.content.lines))
    /\ d_res.removed = 0

\* C13: compute_diff of a snapshot with itself returns (0, 0) and writes a
\* report of added: 0, removed: 0 with no '+' and no '-' line.
C13_DiffWithItself ==
  (d_res.done /\ d_prev = d_new) =>
    /\ d_res.added = 0
    /\ d_res.removed = 0
    /\ d_res.plus = <<>>
    /\ d_res.minus = <<>>

\* A snapshot of two body lines compared with itself.
C13_Witness ==
  /\ d_res.done
  /\ d_prev = d_new
  /\ Len(BodyLines(d_new.content.lines)) = 2

(***************************************************************************)
(* The pipeline: runs of main on one output file, "tree.txt", the          *)
(* directories changing and seconds passing between the runs.              *)
(***************************************************************************)
PipeRoots == { "proj", "lib" }

\* What the directory of a root may be: "proj" holds a.py alone or a.py, sub
\* and sub/B.PY; "lib" holds a.py or does not exist.  A root that exists has
\* a .gitignore of the one line "*.md".
PipeFs(r) ==
  IF r = "proj"
    THEN { FsRecord(TRUE, { <<"a.py">> }, {}, TRUE, << "*.md" >>),
           FsRecord(TRUE, Closure({ <<"a.py">>, <<"sub", "B.PY">> }), {}, TRUE,
                    << "*.md" >>) }
    ELSE { MissingRoot, FsRecord(TRUE, { <<"a.py">> }, {}, TRUE, << "*.md" >>) }

\* --gitignore, and whether the pathspec package is installed: it is when
\* the flag is used.
GitOptions == { << FALSE, FALSE >>, << TRUE, TRUE >> }

\* The output file before the first run: none, or a file that holds the
\* paths alone, without blank lines and root markers.
FirstOutputs ==
  { NoSnapshot, File(Snapshot(0, << HeaderLine(0), << "a.py" >> >>)) }

RootLists == { << "proj", "lib" >>, << "lib", "proj" >> }

AllFlags ==
  [skip_unchanged : BOOLEAN, no_backup : BOOLEAN, no_diff : BOOLEAN, json : BOOLEAN]

InitPipe ==
  /\ WalkIdle
  /\ RotIdle
  /\ DiffIdle
  /\ \E roots \in RootLists, depth \in 0..1, g \in GitOptions :
       p_cfg = [roots |-> roots, depth |-> depth, include |-> << "PY" >>,
                exclude |-> <<>>, gitignore |-> g[1], pathspec |-> g[2]]
  /\ p_flags \in AllFlags
  /\ p_fs \in { f \in [PipeRoots -> UNION { PipeFs(r) : r \in PipeRoots }] :
                  \A r \in PipeRoots : f[r] \in PipeFs(r) }
  /\ p_out \in FirstOutputs
  /\ p_outdir \in (IF p_out.exists THEN { TRUE } ELSE BOOLEAN)
  /\ p_bdir = NoBackupDir
  /\ p_json = NoFile
  /\ p_diff = NoFile
  /\ p_clock = 1
  /\ p_run = 0
  /\ p_pc = "idle"
  /\ p_prev = FALSE
  /\ p_workers = <<>>
  /\ p_finished = <<>>
  /\ p_exit = "none"
  /\ p_fail = "none"
  /\ p_warned = {}
  /\ p_start = NoSnapshot
  /\ p_rotated = 0
  /\ p_opened = FALSE
  /\ p_stable = FALSE
  /\ p_again = FALSE
  /\ p_last_exit = "none"
  /\ p_loads = [r \in PipeRoots |-> 0]

Between == p_pc \in { "idle", "done" }

\* An exception escapes main at the step named.
Fails(step) ==
  /\ p_pc' = "done"
  /\ p_exit' = "raised"
  /\ p_fail' = step
  /\ p_stable' = FALSE

\* main is called (lines 276-306), with the arguments of every run of the
\* behaviour: the roots that do not exist are logged.
StartRun ==
  /\ Between
  /\ p_run < MaxRuns
  /\ p_run' = p_run + 1
  /\ p_warned' = { r \in Range(p_cfg.roots) : ~p_fs[r].exists }
  /\ p_pc' = "check"
  /\ p_exit' = "none"
  /\ p_fail' = "none"
  /\ p_start' = p_out
  /\ p_rotated' = 0
  /\ p_opened' = FALSE
  /\ p_prev' = FALSE
  /\ p_workers' = <<>>
  /\ p_finished' = <<>>
  /\ p_again' = p_stable
  /\ p_last_exit' = p_exit
  /\ p_loads' = [r \in PipeRoots |-> 0]
  /\ UNCHANGED <<p_cfg, p_flags, p_fs, p_outdir, p_out, p_bdir, p_json, p_diff,
                 p_clock, p_stable, walk_vars, rot_vars, diff_vars>>

\* Lines 308-322: the unchanged check, then prev_snapshot.
CheckUnchanged ==
  /\ p_pc = "check"
  /\ LET cur == CurrentListing(p_fs, p_cfg, p_cfg.pathspec, 1)
     IN IF p_flags.skip_unchanged /\ p_out.exists /\ cur.raised
          THEN Fails("check") /\ UNCHANGED p_prev
        ELSE IF p_flags.skip_unchanged /\ p_out.exists /\ IsUnchanged(p_out, cur.rels)
          THEN /\ p_pc' = "done"
               /\ p_exit' = "unchanged"
               /\ UNCHANGED <<p_fail, p_stable, p_prev>>
        ELSE /\ p_pc' = NextPhase("check")
             /\ p_prev' = p_out.exists
             /\ UNCHANGED <<p_exit, p_fail, p_stable>>
  /\ p_loads' = IF p_flags.skip_unchanged /\ p_out.exists
                  THEN CheckReads(p_fs, p_cfg, p_cfg.pathspec, 1, p_loads)
                  ELSE p_loads
  /\ UNCHANGED <<p_cfg, p_flags, p_fs, p_outdir, p_out, p_bdir, p_json, p_diff,
                 p_clock, p_run, p_workers, p_finished, p_warned, p_start,
                 p_rotated, p_opened, walk_vars, rot_vars, diff_vars, p_again,
                 p_last_exit>>

\* Lines 324-325.  bdir.mkdir has no parents=True: it raises when the
\* directory of the output file does not exist.
RotateStep ==
  /\ p_pc = "rotate"
  /\ IF p_flags.no_backup
       THEN /\ p_pc' = NextPhase("rotate")
            /\ UNCHANGED <<p_bdir, p_out, p_rotated, p_exit, p_fail, p_stable>>
     ELSE IF ~p_outdir
       THEN Fails("mkdir") /\ UNCHANGED <<p_bdir, p_out, p_rotated>>
     ELSE LET r == rotate_backups(p_bdir, p_out, TargetStem, p_clock, DefaultKeep)
          IN /\ p_bdir' = r.dir
             /\ p_out' = IF p_out.exists THEN NoSnapshot ELSE p_out
             /\ p_rotated' = p_rotated + 1
             /\ p_pc' = NextPhase("rotate")
             /\ UNCHANGED <<p_exit, p_fail, p_stable>>
  /\ UNCHANGED <<p_cfg, p_flags, p_fs, p_outdir, p_json, p_diff, p_clock, p_run,
                 p_prev, p_workers, p_finished, p_warned, p_start, p_opened,
                 walk_vars, rot_vars, diff_vars, p_again, p_last_exit, p_loads>>

QueuedWorker == [st |-> "queued", rels |-> <<>>, todo |-> <<>>]

\* Lines 327-337: the directory is made, the file is opened (and so emptied),
\* the header and a blank line are printed, the roots go to the pool.
OpenOutput ==
  /\ p_pc = "open"
  /\ p_outdir' = TRUE
  /\ p_out' = File(Snapshot(p_run, << HeaderLine(p_clock), BlankLine >>))
  /\ p_opened' = TRUE
  /\ p_workers' = [i \in 1..Len(p_cfg.roots) |-> QueuedWorker]
  /\ p_pc' = NextPhase("open")
  /\ UNCHANGED <<p_cfg, p_flags, p_fs, p_bdir, p_json, p_diff, p_clock, p_run,
                 p_prev, p_finished, p_exit, p_fail, p_warned, p_start,
                 p_rotated, p_stable, walk_vars, rot_vars, diff_vars, p_again, p_last_exit, p_loads>>

\* The open of line 328 raises OSError (the output path cannot be written).
OpenOutputFails ==
  /\ p_pc = "open"
  /\ p_outdir' = TRUE
  /\ Fails("open")
  /\ UNCHANGED <<p_cfg, p_flags, p_fs, p_out, p_bdir, p_json, p_diff, p_clock,
                 p_run, p_prev, p_workers, p_finished, p_warned, p_start,
                 p_rotated, p_opened, walk_vars, rot_vars, diff_vars, p_again, p_last_exit, p_loads>>

\* A worker takes its root: _one_root up to the first entry, or its raise.
WorkerStart(i) ==
  /\ p_pc = "scan"
  /\ p_workers[i].st = "queued"
  /\ LET r == one_root(p_fs[p_cfg.roots[i]], p_cfg, p_cfg.pathspec)
         st == IF r.raised THEN "raised" ELSE IF r.rels = <<>> THEN "done" ELSE "running"
     IN /\ p_workers' = [p_workers EXCEPT ![i] = [st |-> st, rels |-> <<>>, todo |-> r.rels]]
        /\ p_finished' = IF st = "running" THEN p_finished ELSE Append(p_finished, i)
  /\ p_loads' = [p_loads EXCEPT ![p_cfg.roots[i]] =
                   @ + Reads(p_fs[p_cfg.roots[i]], p_cfg.gitignore, p_cfg.pathspec)]
  /\ UNCHANGED <<p_cfg, p_flags, p_fs, p_outdir, p_out, p_bdir, p_json, p_diff,
                 p_clock, p_run, p_pc, p_prev, p_exit, p_fail, p_warned, p_start,
                 p_rotated, p_opened, p_stable, walk_vars, rot_vars, diff_vars,
                 p_again, p_last_exit>>

\* A worker adds the next entry of its walk to its own list.
WorkerYield(i) ==
  /\ p_pc = "scan"
  /\ p_workers[i].st = "running"
  /\ LET w == p_workers[i]
         left == Tail(w.todo)
     IN /\ p_workers' = [p_workers EXCEPT ![i] =
                           [st |-> IF left = <<>> THEN "done" ELSE "running",
                            rels |-> Append(w.rels, Head(w.todo)), todo |-> left]]
        /\ p_finished' = IF left = <<>> THEN Append(p_finished, i) ELSE p_finished
  /\ UNCHANGED <<p_cfg, p_flags, p_fs, p_outdir, p_out, p_bdir, p_json, p_diff,
                 p_clock, p_run, p_pc, p_prev, p_exit, p_fail, p_warned, p_start,
                 p_rotated, p_opened, p_stable, walk_vars, rot_vars, diff_vars, p_again, p_last_exit, p_loads>>

\* Lines 339-343, the pool having shut down: the results are printed in
\* turn; the result of a worker that raised re-raises, and the file is
\* closed with what was printed before it.
WriteResults ==
  /\ p_pc = "scan"
  /\ \A i \in 1..Len(p_workers) : p_workers[i].st \in { "done", "raised" }
  /\ LET res == ResultLines(p_cfg.roots, p_workers,
                            ResultOrder(Len(p_cfg.roots), p_finished), 1)
     IN /\ p_out' = File(Snapshot(p_run, p_out.content.lines \o res.lines))
        /\ IF res.raised THEN Fails("scan")
           ELSE /\ p_pc' = NextPhase("scan")
                /\ UNCHANGED <<p_exit, p_fail, p_stable>>
  /\ UNCHANGED <<p_cfg, p_flags, p_fs, p_outdir, p_bdir, p_json, p_diff, p_clock,
                 p_run, p_prev, p_workers, p_finished, p_warned, p_start,
                 p_rotated, p_opened, walk_vars, rot_vars, diff_vars, p_again, p_last_exit, p_loads>>

\* Lines 345-355.
JsonExport ==
  /\ p_pc = "json"
  /\ LET t == get_tree_dict(p_cfg.roots, p_fs, p_cfg.depth,
                            NormInclude(p_cfg.include), p_cfg.exclude,
                            p_cfg.gitignore, p_cfg.pathspec)
     IN IF ~p_flags.json
          THEN /\ p_pc' = NextPhase("json")
               /\ UNCHANGED <<p_json, p_exit, p_fail, p_stable>>
        ELSE IF t.raised
          THEN Fails("json") /\ UNCHANGED p_json
        ELSE /\ p_json' = File(t.vals[1])
             /\ p_pc' = NextPhase("json")
             /\ UNCHANGED <<p_exit, p_fail, p_stable>>
  /\ p_loads' = IF p_flags.json
                  THEN TreeReads(p_fs, p_cfg, p_cfg.pathspec, 1, p_loads)
                  ELSE p_loads
  /\ UNCHANGED <<p_cfg, p_flags, p_fs, p_outdir, p_out, p_bdir, p_diff, p_clock,
                 p_run, p_prev, p_workers, p_finished, p_warned, p_start,
                 p_rotated, p_opened, walk_vars, rot_vars, diff_vars, p_again,
                 p_last_exit>>

\* Lines 357-362.  prev_snapshot, when it is not None, is the path args.out,
\* and so is "prev_snapshot or args.out" in either case: both arguments of
\* compute_diff name the output file as it is now.
DiffStep ==
  /\ p_pc = "diff"
  /\ IF p_flags.no_diff
       THEN /\ p_pc' = "done"
            /\ p_exit' = "ok"
            /\ p_stable' = TRUE
            /\ UNCHANGED <<p_diff, p_fail>>
     ELSE IF ~p_out.exists
       THEN Fails("diff") /\ UNCHANGED p_diff
     ELSE /\ p_diff' = File(compute_diff(p_out, p_out))
          /\ p_pc' = "done"
          /\ p_exit' = "ok"
          /\ p_stable' = TRUE
          /\ UNCHANGED p_fail
  /\ UNCHANGED <<p_cfg, p_flags, p_fs, p_outdir, p_out, p_bdir, p_json, p_clock,
                 p_run, p_prev, p_workers, p_finished, p_warned, p_start,
                 p_rotated, p_opened, walk_vars, rot_vars, diff_vars, p_again, p_last_exit, p_loads>>

\* Between two runs, the directory of a root changes.
FsChange ==
  /\ Between
  /\ p_run < MaxRuns
  /\ \E r \in PipeRoots :
     \E F \in PipeFs(r) :
       /\ F # p_fs[r]
       /\ p_fs' = [p_fs EXCEPT ![r] = F]
  /\ p_stable' = FALSE
  /\ UNCHANGED <<p_cfg, p_flags, p_outdir, p_out, p_bdir, p_json, p_diff, p_clock,
                 p_run, p_pc, p_prev, p_workers, p_finished, p_exit, p_fail,
                 p_warned, p_start, p_rotated, p_opened, walk_vars, rot_vars, diff_vars, p_again, p_last_exit, p_loads>>

\* Between two runs, a second passes.
TickPipe ==
  /\ Between
  /\ p_clock < 1 + MaxPipeTicks
  /\ p_clock' = p_clock + 1
  /\ UNCHANGED <<p_cfg, p_flags, p_fs, p_outdir, p_out, p_bdir, p_json, p_diff,
                 p_run, p_pc, p_prev, p_workers, p_finished, p_exit, p_fail,
                 p_warned, p_start, p_rotated, p_opened, p_stable, walk_vars,
                 rot_vars, diff_vars, p_again, p_last_exit, p_loads>>

Next ==
  \/ StartRun
  \/ CheckUnchanged
  \/ RotateStep
  \/ OpenOutput
  \/ OpenOutputFails
  \/ \E i \in 1..Len(p_workers) : WorkerStart(i)
  \/ \E i \in 1..Len(p_workers) : WorkerYield(i)
  \/ WriteResults
  \/ JsonExport
  \/ DiffStep
  \/ FsChange
  \/ TickPipe

Spec == InitPipe /\ [][Next]_vars

(***************************************************************************)
(* Properties of the pipeline.                                             *)
(***************************************************************************)
\* The body lines of a file, as a set.
BodySet(file) == Range(BodyLines(file.content.lines))

\* C1: a run with skip-if-unchanged that follows, with no change of the
\* directories, a run that wrote its snapshot reports "unchanged" and does
\* not write the output file.
C1_SecondRunUnchanged ==
  (p_pc = "done" /\ p_flags.skip_unchanged /\ p_again /\ p_fail # "open") =>
    /\ p_exit = "unchanged"
    /\ ~p_opened
    /\ p_out = p_start

\* C2: the diff report of a run that found a snapshot and wrote a new one
\* counts the lines of the new one that the old one lacks as added, and the
\* lines of the old one that the new one lacks as removed.
C2_DiffAgainstPrevious ==
  (p_pc = "done" /\ p_exit = "ok" /\ ~p_flags.no_diff /\ p_start.exists
     /\ p_last_exit = "ok") =>
    /\ p_diff.exists
    /\ p_diff.content.added = Cardinality(BodySet(p_out) \ BodySet(p_start))
    /\ p_diff.content.removed = Cardinality(BodySet(p_start) \ BodySet(p_out))

\* The configured roots that do not exist.
MissingRoots == { r \in Range(p_cfg.roots) : ~p_fs[r].exists }

\* C3: a run logs the configured roots that do not exist and goes on: no
\* exception of a scan, in the unchanged check or in the real one, ends a
\* run that logged one.
C3_MissingRootContinues ==
  /\ ~Between => p_warned = MissingRoots
  /\ (p_pc = "done" /\ p_warned # {}) => p_fail \notin { "check", "scan" }

\* The body of the snapshot of the roots from the i-th on, each walked on
\* its own.
RECURSIVE ExpectedBody(_)
ExpectedBody(i) ==
  IF i > Len(p_cfg.roots) THEN <<>>
  ELSE << MarkerLine(p_cfg.roots[i]) >>
       \o one_root(p_fs[p_cfg.roots[i]], p_cfg, p_cfg.pathspec).rels
       \o << BlankLine >> \o ExpectedBody(i + 1)

\* C6: whatever the order the workers ran and finished in, the snapshot
\* written lists the roots in the configured order, each marker followed by
\* the walk of its own root, whole and in order.
C6_ConfiguredOrder ==
  (p_opened /\ p_pc \in { "json", "diff" }) =>
    /\ p_out.exists
    /\ p_out.content.lines = << HeaderLine(p_clock), BlankLine >> \o ExpectedBody(1)

\* A snapshot written after the worker of the second root finished first,
\* the two workers having built different lists.
C6_Witness ==
  /\ p_opened
  /\ p_pc = "json"
  /\ Len(p_finished) = 2
  /\ p_finished[1] = 2
  /\ p_workers[1].rels # <<>>
  /\ p_workers[2].rels # <<>>
  /\ p_workers[1].rels # p_workers[2].rels

\* The contents of the backup set, compressed or not.
BackedUp ==
  { p_bdir.txt[n] : n \in DOMAIN p_bdir.txt }
    \cup { p_bdir.gz[n][2] : n \in DOMAIN p_bdir.gz }

\* C7: a run rotates at most once; with backup enabled and an output file
\* found, it has rotated by the time it opens the output file, the backup
\* set then holds the file it found, and never a file the run wrote itself.
C7_RotateBeforeWrite ==
  /\ p_rotated <= 1
  /\ (~p_flags.no_backup /\ p_start.exists /\ p_opened) =>
       (p_rotated = 1 /\ p_start.content \in BackedUp)
  /\ \A c \in BackedUp : c.by # p_run

\* A run that found a snapshot, moved it to the backup set and wrote its own.
C7_Witness ==
  /\ ~p_flags.no_backup
  /\ p_start.exists
  /\ p_rotated = 1
  /\ p_start.content \in BackedUp
  /\ p_pc = "json"
  /\ p_out.exists
  /\ p_out.content.by = p_run

\* C8: a run that rotated and then failed in its scan or its write ends with
\* the previous snapshot in the backup set and no file at the output path.
C8_FailedRunLeavesNoSnapshot ==
  (p_pc = "done" /\ p_exit = "raised" /\ p_fail \in { "scan", "open" }
     /\ p_rotated = 1 /\ p_start.exists /\ p_last_exit = "ok") =>
    /\ p_start.content \in BackedUp
    /\ ~p_out.exists

\* C16: when the listing the unchanged check computes from the directories
\* as they are now equals, as a set, the body of the output file, the run
\* returns there with status 0 and the output file, the backup directory,
\* the JSON export and the diff report stay as they are; when it does not,
\* the run goes on.
C16_UnchangedExits ==
  [][ (p_pc = "check" /\ p_flags.skip_unchanged /\ p_out.exists) =>
        LET cur == CurrentListing(p_fs, p_cfg, p_cfg.pathspec, 1)
        IN /\ (~cur.raised /\ BodySet(p_out) = Range(cur.rels)) =>
                /\ p_pc' = "done"
                /\ p_exit' = "unchanged"
                /\ UNCHANGED <<p_out, p_bdir, p_json, p_diff>>
           /\ (~cur.raised /\ BodySet(p_out) # Range(cur.rels)) =>
                p_pc' = "rotate"
    ]_vars

\* A run that found the output file, returned as unchanged and left it.
C16_Witness ==
  /\ p_pc = "done"
  /\ p_run >= 1
  /\ p_exit = "unchanged"
  /\ p_start.exists
  /\ p_out = p_start

\* C18: a run with gitignore enabled that returns normally has read the
\* .gitignore of each configured root exactly once.
C18_GitignoreLoadedOnce ==
  (p_pc = "done" /\ p_cfg.gitignore /\ p_exit \in { "ok", "unchanged" }) =>
    \A r \in Range(p_cfg.roots) : p_loads[r] = 1

====
